---- MODULE Spec2Model ----
(***************************************************************************)
(* Model of examples/album_sort_order.py: the template function            *)
(* album_sequence and the post-export function album_sort_order.           *)
(*                                                                         *)
(* Python strings are sequences of one-character strings, so that          *)
(* str.endswith, "/".join, sanitize_dirname, pathlib.Path and str(int) are *)
(* computed character by character as the code computes them.              *)
(***************************************************************************)
EXTENDS Integers, Sequences, FiniteSets

VARIABLES album_info, albums, env, files, last

vars == <<album_info, albums, env, files, last>>

\* Bound: the number of album memberships of the photo (len(photo.album_info)).
MaxAlbums == 2

\* Bound: the number of files in results.exported.
MaxExported == 2

\* Python's None (an unset environment variable, an absent dest_path, no
\* return value): a sequence no string of characters is equal to.
None == <<"None">>

\* The uuid of the photo the functions are called with, and of another photo.
ThePhoto == "P"
OtherPhoto == "Q"

----------------------------------------------------------------------------
\* Strings of the model.

S_a == <<"a">>
S_x == <<"x">>
S_xa == <<"x", "/", "a">>

\* Album titles: a plain one and one holding a path separator.
Titles == {S_a, S_xa}

\* Folder paths of an album: top level, or inside the folder x.
FolderPaths == {<<>>, <<S_x>>}

\* Ordered photo lists of an album: the photo first, second, or absent.
PhotoLists == {<<ThePhoto>>, <<OtherPhoto, ThePhoto>>, <<OtherPhoto>>}

Albums == [folder_names : FolderPaths, title : Titles, photos : PhotoLists]

RECURSIVE SeqsUpTo(_, _)
SeqsUpTo(S, n) ==
    IF n = 0 THEN {<<>>}
    ELSE LET shorter == SeqsUpTo(S, n - 1)
         IN  shorter \cup {Append(s, x) : s \in {t \in shorter : Len(t) = n - 1}, x \in S}

\* Values of OSXPHOTOS_ALBUM_SEQUENCE_START.
EnvValues == {None, <<"0">>, <<"5">>, <<"1", "2">>, <<"-", "1">>, <<"x">>, <<>>}

\* Values of options.dest_path.
DestPaths ==
    { None, <<>>,
      <<"/", "e", "/", "a">>,
      <<"/", "e", "/", "x", "/", "a">>,
      <<"/", "e", "/", "x", ":", "a">>,
      <<"/", "e", "/", "x", "/", "x", ":", "a">>,
      <<"/", "a", "/", "x", ":", "a">>,
      <<"/", "e", "/", "b">> }

----------------------------------------------------------------------------
\* Library functions the code calls.

\* osxphotos.path_utils.sanitize_dirname: the path separator in a directory
\* name is replaced by ":".
sanitize_dirname(name) ==
    [i \in 1..Len(name) |-> IF name[i] = "/" THEN ":" ELSE name[i]]

\* AlbumInfo.photo_index(photo): the zero-based position of the photo in the
\* album's ordered photo list; ok = FALSE stands for the ValueError raised when
\* the photo is not in the list.
photo_index(album) ==
    LET at == {i \in 1..Len(album.photos) : album.photos[i] = ThePhoto}
    IN  IF at = {} THEN [ok |-> FALSE, val |-> 0]
        ELSE [ok |-> TRUE, val |-> (CHOOSE i \in at : \A j \in at : i <= j) - 1]

\* sep.join(parts)
RECURSIVE join(_, _)
join(sep, parts) ==
    IF parts = <<>> THEN <<>>
    ELSE IF Len(parts) = 1 THEN parts[1]
    ELSE parts[1] \o sep \o join(sep, Tail(parts))

\* A plausible slip: `folder in dest_path` in place of dest_path.endswith(folder).
contains(s, t) ==
    \E i \in 0..(Len(s) - Len(t)) : SubSeq(s, i + 1, i + Len(t)) = t

\* s.endswith(t)
endswith(s, t) ==
    /\ Len(t) <= Len(s)
    /\ SubSeq(s, Len(s) - Len(t) + 1, Len(s)) = t

Digits == <<"0", "1", "2", "3", "4", "5", "6", "7", "8", "9">>

RECURSIVE DigitsOf(_)
DigitsOf(n) ==
    IF n < 10 THEN <<Digits[n + 1]>>
    ELSE DigitsOf(n \div 10) \o <<Digits[(n % 10) + 1]>>

\* str(n) for an int n
str(n) == IF n < 0 THEN <<"-">> \o DigitsOf(-n) ELSE DigitsOf(n)

DigitValue(c) == (CHOOSE d \in 1..10 : Digits[d] = c) - 1

IsDigit(c) == \E d \in 1..10 : Digits[d] = c

RECURSIVE NumeralValue(_)
NumeralValue(ds) ==
    IF ds = <<>> THEN 0
    ELSE 10 * NumeralValue(SubSeq(ds, 1, Len(ds) - 1)) + DigitValue(ds[Len(ds)])

\* int(s) for a str s: an optional sign and at least one decimal digit;
\* ok = FALSE stands for the ValueError of any other string. (The white space
\* and digit-group underscores int also accepts do not occur in EnvValues.)
int(s) ==
    LET signed == s # <<>> /\ s[1] \in {"-", "+"}
        ds == IF signed THEN Tail(s) ELSE s
    IN  IF ds # <<>> /\ \A i \in 1..Len(ds) : IsDigit(ds[i])
        THEN [ok |-> TRUE,
              val |-> IF signed /\ s[1] = "-" THEN -NumeralValue(ds) ELSE NumeralValue(ds)]
        ELSE [ok |-> FALSE, val |-> 0]

----------------------------------------------------------------------------
\* album_sequence

\* The folder path {folder_album} builds for an album.
folder_path(album) ==
    join(<<"/">>, [i \in 1..Len(album.folder_names) |-> sanitize_dirname(album.folder_names[i])])
        \o <<"/">> \o sanitize_dirname(album.title)

\* A plausible slip: the loop without its break, so that the last match wins.
RECURSIVE last_match(_, _)
last_match(i, dest_path) ==
    IF i > Len(album_info) THEN 0
    ELSE LET later == last_match(i + 1, dest_path)
         IN  IF later # 0 THEN later
             ELSE IF endswith(dest_path, folder_path(album_info[i])) THEN i ELSE 0

\* The for loop over photo.album_info from position i on: the position of the
\* first album whose folder path dest_path ends with, 0 when the loop ends
\* without a break.
RECURSIVE first_match(_, _)
first_match(i, dest_path) ==
    IF i > Len(album_info) THEN 0
    ELSE IF endswith(dest_path, folder_path(album_info[i])) THEN i
    ELSE first_match(i + 1, dest_path)

\* A plausible slip: the offset is not read from the environment.
start_index_default(e) == [ok |-> TRUE, val |-> 0]

\* A plausible slip: a malformed offset falls back to the default.
start_index_lenient(e) ==
    IF e = None \/ ~int(e).ok THEN [ok |-> TRUE, val |-> 0] ELSE int(e)

\* int(os.getenv("OSXPHOTOS_ALBUM_SEQUENCE_START", 0)) where e is the value of
\* the variable in the environment.
start_index(e) == IF e = None THEN [ok |-> TRUE, val |-> 0] ELSE int(e)

\* One observable step of a call: a call of photo_index ("photo_index"), a
\* line given to verbose ("verbose") or a file written ("write"). pos is the
\* position of the exported file the step belongs to (0 in album_sequence) and
\* album the position in photo.album_info of the album it is about.
Event(kind, pos, album, path, album_dir, text) ==
    [kind |-> kind, pos |-> pos, album |-> album, path |-> path,
     album_dir |-> album_dir, text |-> text]

IndexRead(pos, album) == Event("photo_index", pos, album, <<>>, <<>>, <<>>)

\* The record of one call: its arguments, how it ended, the album it resolved
\* and the steps it took.
Call(op, dest_path, e, exported, outcome, ret, album, trace) ==
    [op |-> op, dest_path |-> dest_path, env |-> e, exported |-> exported,
     outcome |-> outcome, ret |-> ret, album |-> album, trace |-> trace]

Returns(dest_path, e, ret, album, trace) ==
    Call("album_sequence", dest_path, e, <<>>, "return", ret, album, trace)

Raises(dest_path, e, album, trace) ==
    Call("album_sequence", dest_path, e, <<>>, "ValueError", None, album, trace)

\* A plausible slip: the offset is read before the early returns.
album_sequence_hoisted(dest_path, e) ==
    IF ~start_index(e).ok THEN Raises(dest_path, e, 0, <<>>)
    ELSE IF dest_path = None \/ dest_path = <<>> THEN Returns(dest_path, e, <<>>, 0, <<>>)
    ELSE LET k == first_match(1, dest_path)
         IN  IF k = 0 THEN Returns(dest_path, e, <<>>, 0, <<>>)
             ELSE IF ~photo_index(album_info[k]).ok
                  THEN Raises(dest_path, e, k, <<IndexRead(0, k)>>)
             ELSE Returns(dest_path, e,
                          str(photo_index(album_info[k]).val + start_index(e).val),
                          k, <<IndexRead(0, k)>>)

\* album_sequence(photo, options) with options.dest_path = dest_path and the
\* environment variable holding e.
album_sequence_call(dest_path, e) ==
    IF dest_path = None \/ dest_path = <<>> THEN Returns(dest_path, e, <<>>, 0, <<>>)
    ELSE LET k == first_match(1, dest_path)
         IN  IF k = 0 THEN Returns(dest_path, e, <<>>, 0, <<>>)
             ELSE IF ~start_index(e).ok THEN Raises(dest_path, e, k, <<>>)
             ELSE IF ~photo_index(album_info[k]).ok
                  THEN Raises(dest_path, e, k, <<IndexRead(0, k)>>)
             ELSE Returns(dest_path, e,
                          str(photo_index(album_info[k]).val + start_index(e).val),
                          k, <<IndexRead(0, k)>>)

album_sequence ==
    \E dest_path \in DestPaths :
        /\ last' = album_sequence_call(dest_path, env)
        /\ UNCHANGED <<album_info, albums, env, files>>

\* The environment variable is set or unset between two calls.
setenv ==
    \E v \in EnvValues :
        /\ v # env
        /\ env' = v
        /\ UNCHANGED <<album_info, albums, files, last>>

NoCall == Call("none", None, None, <<>>, "none", None, 0, <<>>)

\* The photo's album names are the titles of its albums; the environment
\* variable is unset and nothing has been written.
Init ==
    /\ album_info \in SeqsUpTo(Albums, MaxAlbums)
    /\ albums = {album_info[i].title : i \in 1..Len(album_info)}
    /\ env = None
    /\ files = <<>>
    /\ last = NoCall

----------------------------------------------------------------------------
\* album_sort_order

\* The files of results.exported: full paths as the export writes them.
ExportedFiles ==
    { <<"/", "e", "/", "a", "/", "f">>,
      <<"/", "e", "/", "x", "/", "a", "/", "g">>,
      <<"/", "e", "/", "x", ":", "a", "/", "f">> }

SortOrderSuffix ==
    <<"_", "s", "o", "r", "t", "_", "o", "r", "d", "e", "r", ".", "t", "x", "t">>

\* s.split("/")
RECURSIVE split(_)
split(s) ==
    IF \A i \in 1..Len(s) : s[i] # "/" THEN <<s>>
    ELSE LET i == CHOOSE i \in 1..Len(s) : s[i] = "/" /\ \A j \in 1..(i - 1) : s[j] # "/"
         IN  <<SubSeq(s, 1, i - 1)>> \o split(SubSeq(s, i + 1, Len(s)))

\* pathlib.Path(filepath): whether the path is anchored at the root, and its
\* parts below the root (empty and "." segments are dropped).
Path(filepath) ==
    [root |-> filepath # <<>> /\ filepath[1] = "/",
     parts |-> SelectSeq(split(filepath), LAMBDA seg : seg # <<>> /\ seg # <<".">>)]

\* str(path) for a pathlib.Path
str_path(path) ==
    IF path.parts = <<>> THEN (IF path.root THEN <<"/">> ELSE <<".">>)
    ELSE (IF path.root THEN <<"/">> ELSE <<>>) \o join(<<"/">>, path.parts)

\* path.parent
parent(path) ==
    [root |-> path.root,
     parts |-> IF path.parts = <<>> THEN <<>> ELSE SubSeq(path.parts, 1, Len(path.parts) - 1)]

\* path.name
name(path) == IF path.parts = <<>> THEN <<>> ELSE path.parts[Len(path.parts)]

\* pathlib.Path(filepath) for each file the export can name (computed once).
PathOf == [f \in ExportedFiles |-> Path(f)]

\* The lists results.exported can be.
ExportedLists == SeqsUpTo(ExportedFiles, MaxExported)

\* The for loop over photo.album_info from position i on: the position of the
\* first album whose title is album_dir, 0 when the loop ends without a break.
RECURSIVE first_title(_, _)
first_title(i, album_dir) ==
    IF i > Len(album_info) THEN 0
    ELSE IF album_info[i].title = album_dir THEN i
    ELSE first_title(i + 1, album_dir)

\* A plausible slip: a file that cannot be recorded is skipped with continue
\* in place of return.
RECURSIVE process_continue(_, _)
process_continue(i, exported) ==
    IF i > Len(exported) THEN <<>>
    ELSE LET filepath == PathOf[exported[i]]
             album_dir == name(parent(filepath))
             k == first_title(1, album_dir)
         IN  IF album_dir \notin albums THEN process_continue(i + 1, exported)
             ELSE IF k = 0 THEN process_continue(i + 1, exported)
             ELSE IF ~photo_index(album_info[k]).ok
                  THEN <<IndexRead(i, k)>> \o process_continue(i + 1, exported)
             ELSE LET sort_order == photo_index(album_info[k]).val
                  IN  << IndexRead(i, k),
                         Event("verbose", i, k, str_path(filepath), album_dir, str(sort_order)),
                         Event("write", i, k, str_path(filepath) \o SortOrderSuffix,
                               album_dir, str(sort_order)) >>
                      \o process_continue(i + 1, exported)

\* The for loop over results.exported from position i on: the steps it takes
\* until it ends or returns.
RECURSIVE process(_, _)
process(i, exported) ==
    IF i > Len(exported) THEN <<>>
    ELSE LET filepath == PathOf[exported[i]]
             album_dir == name(parent(filepath))
             k == first_title(1, album_dir)
         IN  IF album_dir \notin albums THEN <<>>
             ELSE IF k = 0 THEN <<>>
             ELSE IF ~photo_index(album_info[k]).ok THEN <<IndexRead(i, k)>>
             ELSE LET sort_order == photo_index(album_info[k]).val
                  IN  << IndexRead(i, k),
                         Event("verbose", i, k, str_path(filepath), album_dir, str(sort_order)),
                         Event("write", i, k, str_path(filepath) \o SortOrderSuffix,
                               album_dir, str(sort_order)) >>
                      \o process(i + 1, exported)

\* A plausible slip: the file is opened with "a" in place of "w".
write_file_append(fs, path, content) ==
    [p \in (DOMAIN fs) \cup {path} |->
        IF p = path THEN (IF path \in DOMAIN fs THEN fs[path] ELSE <<>>) \o content
        ELSE fs[p]]

\* open(path, "w") and f.write(content): the file is created or truncated.
write_file(fs, path, content) ==
    [p \in (DOMAIN fs) \cup {path} |-> IF p = path THEN content ELSE fs[p]]

\* The file system after the writes of a trace, in order.
RECURSIVE written(_, _)
written(fs, trace) ==
    IF trace = <<>> THEN fs
    ELSE IF trace[1].kind = "write"
         THEN written(write_file(fs, trace[1].path, trace[1].text), Tail(trace))
    ELSE written(fs, Tail(trace))

album_sort_order ==
    \E exported \in ExportedLists :
        LET trace == process(1, exported)
        IN  /\ last' = Call("album_sort_order", None, env, exported, "return", None, 0, trace)
            /\ files' = written(files, trace)
            /\ UNCHANGED <<album_info, albums, env>>

\* An export: the template function and the post-export function are called
\* for the photo, in any order and any number of times.
Next == album_sequence \/ album_sort_order

Spec == Init /\ [][Next]_vars

\* The template function called while the environment changes between calls.
NextEnv == album_sequence \/ setenv

SpecEnv == Init /\ [][NextEnv]_vars

----------------------------------------------------------------------------
\* Vocabulary of the properties, stated on strings and lists directly.

\* t is a suffix of s.
IsSuffixOf(t, s) == \E n \in 0..Len(s) : SubSeq(s, n + 1, Len(s)) = t

RECURSIVE Slashed(_)
Slashed(names) ==
    IF names = <<>> THEN <<>>
    ELSE <<"/">> \o sanitize_dirname(names[1]) \o Slashed(Tail(names))

\* The sanitized folder segments of an album joined by the separator, then the
\* separator and the sanitized title.
ConstructedPath(album) ==
    IF album.folder_names = <<>> THEN Slashed(<<album.title>>)
    ELSE Tail(Slashed(Append(album.folder_names, album.title)))

\* The memberships whose constructed path is a suffix of the destination d.
Matching(d) ==
    IF d = None THEN {}
    ELSE {i \in 1..Len(album_info) : IsSuffixOf(ConstructedPath(album_info[i]), d)}

Min(S) == CHOOSE i \in S : \A j \in S : i <= j

Max(S) == CHOOSE i \in S : \A j \in S : j <= i

\* The offset configuration is unset or holds an integer; its value.
OffsetOk(e) == e = None \/ int(e).ok

OffsetOf(e) == IF e = None THEN 0 ELSE int(e).val

SlashesOf(p) == {i \in 1..Len(p) : p[i] = "/"}

\* The name of the directory a file path lies in, and that directory's path.
DirName(p) ==
    IF SlashesOf(p) = {} THEN <<>>
    ELSE LET end == Max(SlashesOf(p))
             before == {i \in SlashesOf(p) : i < end}
         IN  SubSeq(p, (IF before = {} THEN 0 ELSE Max(before)) + 1, end - 1)

DirPath(p) == IF SlashesOf(p) = {} THEN <<>> ELSE SubSeq(p, 1, Max(SlashesOf(p)) - 1)

\* The memberships whose title is the given name.
Titled(dirname) == {i \in 1..Len(album_info) : album_info[i].title = dirname}

\* The file at position i of the exported list cannot be recorded.
Fails(exported, i) ==
    \/ DirName(exported[i]) \notin albums
    \/ Titled(DirName(exported[i])) = {}
    \/ ~photo_index(album_info[Min(Titled(DirName(exported[i])))]).ok

\* The position of the first file that cannot be recorded, or one past the end.
FirstFailing(exported) ==
    Min({i \in 1..Len(exported) : Fails(exported, i)} \cup {Len(exported) + 1})

\* The steps of a trace that are files written, or lines logged.
Of(trace, kind) == SelectSeq(trace, LAMBDA ev : ev.kind = kind)

Sequenced == last.op = "album_sequence"

Recorded == last.op = "album_sort_order"

----------------------------------------------------------------------------
\* C1: a call of album_sequence for a photo in exactly one album, whose
\* destination path ends with that album's constructed path and whose position
\* in the album is i, returns the decimal string of i + k, k being the value
\* of the offset in the environment in the state the call is made in, whatever
\* the offset was at earlier calls.
C1_SequenceIsIndexPlusCurrentOffset ==
    [][ ( /\ last' # last
          /\ last'.op = "album_sequence"
          /\ Len(album_info) = 1
          /\ Matching(last'.dest_path) = {1}
          /\ photo_index(album_info[1]).ok
          /\ OffsetOk(env) )
        => ( /\ last'.outcome = "return"
             /\ last'.ret = str(photo_index(album_info[1]).val + OffsetOf(env))
             /\ int(last'.ret) =
                    [ok |-> TRUE, val |-> photo_index(album_info[1]).val + OffsetOf(env)] )
      ]_vars

\* A call made after the offset was set to 5, for a photo second in its album.
C1_Witness ==
    /\ Sequenced
    /\ Len(album_info) = 1
    /\ Matching(last.dest_path) = {1}
    /\ photo_index(album_info[1]) = [ok |-> TRUE, val |-> 1]
    /\ last.env = <<"5">>
    /\ last.ret = <<"6">>

\* C2: album_sequence returns the empty string, without raising and without
\* calling photo_index, when there is no destination path, the photo has no
\* album membership, or no membership's constructed path is a suffix of the
\* destination path.
C2_EmptyWithoutMatch ==
    ( /\ Sequenced
      /\ \/ last.dest_path \in {None, <<>>}
         \/ album_info = <<>>
         \/ Matching(last.dest_path) = {} )
    => ( /\ last.outcome = "return"
         /\ last.ret = <<>>
         /\ last.trace = <<>> )

\* A call with a destination path no membership matches, made while the offset
\* is malformed.
C2_Witness ==
    /\ Sequenced
    /\ last.dest_path \notin {None, <<>>}
    /\ album_info # <<>>
    /\ Matching(last.dest_path) = {}
    /\ ~OffsetOk(last.env)
    /\ last.ret = <<>>

\* C3 as stated: when the exported list holds a file whose parent directory
\* name is not one of the photo's album names, the invocation writes no file
\* and logs no line at all.
C3_NothingAtAll ==
    ( /\ Recorded
      /\ \E i \in 1..Len(last.exported) : DirName(last.exported[i]) \notin albums )
    => ( Of(last.trace, "write") = <<>> /\ Of(last.trace, "verbose") = <<>> )

\* C3 amended: when the exported list holds a file whose parent directory name
\* is not one of the photo's album names, the invocation writes no file and
\* logs no line for that file or for any file after it in the list.
C3_NothingFromThereOn ==
    Recorded =>
        \A i \in 1..Len(last.exported) :
            DirName(last.exported[i]) \notin albums =>
                \A n \in 1..Len(last.trace) :
                    last.trace[n].kind \in {"write", "verbose"} => last.trace[n].pos < i

\* The first file was recorded and the second lies in no album directory.
C3_Witness ==
    /\ Recorded
    /\ Len(last.exported) = 2
    /\ DirName(last.exported[2]) \notin albums
    /\ Len(Of(last.trace, "write")) = 1
    /\ Of(last.trace, "write")[1].pos = 1

\* C4 as stated: no call in which photo_index raised for the resolved album
\* ends with an error.
C4_NotAMemberIsSkipped ==
    \A n \in 1..Len(last.trace) :
        ( /\ last.trace[n].kind = "photo_index"
          /\ ~photo_index(album_info[last.trace[n].album]).ok )
        => last.outcome = "return"

\* C5: every file album_sort_order writes is an exported file's path followed
\* by _sort_order.txt, holds exactly the decimal form of the photo's index in
\* an album whose title is that file's parent directory name, and is written
\* right after the one line logged for that file, album and index; nothing
\* else is written.
C5_CompanionFiles ==
    /\ Recorded =>
        /\ \A n \in 1..Len(last.trace) :
            last.trace[n].kind = "write" =>
                LET w == last.trace[n]
                    p == last.exported[w.pos]
                IN  /\ w.path = p \o SortOrderSuffix
                    /\ \E k \in Titled(DirName(p)) :
                          /\ photo_index(album_info[k]).ok
                          /\ w.text = str(photo_index(album_info[k]).val)
                    /\ n > 1
                    /\ last.trace[n - 1] =
                          [w EXCEPT !.kind = "verbose", !.path = p, !.album_dir = DirName(p)]
                    /\ Cardinality({m \in 1..Len(last.trace) :
                                       /\ last.trace[m].kind = "verbose"
                                       /\ last.trace[m].pos = w.pos}) = 1
                    /\ files[w.path] =
                          Of(last.trace, "write")[
                              Max({m \in 1..Len(Of(last.trace, "write")) :
                                      Of(last.trace, "write")[m].path = w.path})].text
        /\ Len(Of(last.trace, "verbose")) = Len(Of(last.trace, "write"))
    /\ \A path \in DOMAIN files :
          \E p \in ExportedFiles :
              /\ path = p \o SortOrderSuffix
              /\ \E k \in Titled(DirName(p)) :
                    /\ photo_index(album_info[k]).ok
                    /\ files[path] = str(photo_index(album_info[k]).val)

\* Two files were recorded by one invocation.
C5_Witness ==
    /\ Recorded
    /\ Len(Of(last.trace, "write")) = 2
    /\ Cardinality(DOMAIN files) = 2

\* C6 as stated: with a malformed offset every call of album_sequence ends
\* with an error and returns no string.
C6_MalformedAlwaysRaises ==
    (Sequenced /\ ~OffsetOk(last.env)) => (last.outcome = "ValueError" /\ last.ret = None)

\* C6 amended: with a malformed offset, every call of album_sequence that has
\* a destination path which some membership's constructed path is a suffix of
\* ends with an error and returns no string.
C6_MalformedRaisesOnceResolved ==
    (Sequenced /\ ~OffsetOk(last.env) /\ Matching(last.dest_path) # {})
    => (last.outcome = "ValueError" /\ last.ret = None)

\* A call that resolved an album holding the photo while the offset was "x".
C6_Witness ==
    /\ Sequenced
    /\ last.env = <<"x">>
    /\ Matching(last.dest_path) # {}
    /\ photo_index(album_info[Min(Matching(last.dest_path))]).ok
    /\ last.outcome = "ValueError"

\* C7 as stated: at most one membership passes the resolver's test for the
\* destination path of a call.
C7_AtMostOneMatch ==
    (Sequenced /\ last.dest_path # None) =>
        Cardinality({i \in 1..Len(album_info) :
                        endswith(last.dest_path, folder_path(album_info[i]))}) <= 1

\* C7 amended: two memberships pass the resolver's test for the same
\* destination path only when the constructed path of one is a suffix of the
\* constructed path of the other.
C7_MatchesAreNested ==
    (Sequenced /\ last.dest_path # None) =>
        \A i, j \in 1..Len(album_info) :
            ( /\ endswith(last.dest_path, folder_path(album_info[i]))
              /\ endswith(last.dest_path, folder_path(album_info[j])) )
            => \/ IsSuffixOf(ConstructedPath(album_info[i]), ConstructedPath(album_info[j]))
               \/ IsSuffixOf(ConstructedPath(album_info[j]), ConstructedPath(album_info[i]))

\* Two memberships with different constructed paths match the destination.
C7_Witness ==
    /\ Sequenced
    /\ last.dest_path # None
    /\ \E i, j \in 1..Len(album_info) :
          /\ endswith(last.dest_path, folder_path(album_info[i]))
          /\ endswith(last.dest_path, folder_path(album_info[j]))
          /\ ConstructedPath(album_info[i]) # ConstructedPath(album_info[j])

\* C8: both resolvers select the first matching membership in the order of
\* photo.album_info: album_sequence returns a string only for the photo's
\* index in the first membership whose constructed path is a suffix of the
\* destination path, and album_sort_order logs and writes only the photo's
\* index in the first membership whose title is the parent directory name.
C8_FirstMatchWins ==
    /\ (Sequenced /\ Matching(last.dest_path) # {}) =>
          LET first == album_info[Min(Matching(last.dest_path))]
          IN  /\ last.album = Min(Matching(last.dest_path))
              /\ last.outcome = "return" =>
                    /\ photo_index(first).ok
                    /\ last.ret = str(photo_index(first).val + OffsetOf(last.env))
              /\ ~photo_index(first).ok => last.outcome = "ValueError"
    /\ Recorded =>
          \A n \in 1..Len(last.trace) :
              LET ev == last.trace[n]
                  first == Min(Titled(DirName(last.exported[ev.pos])))
              IN  /\ Titled(DirName(last.exported[ev.pos])) # {}
                  /\ ev.album = first
                  /\ ev.kind \in {"write", "verbose"} =>
                        ev.text = str(photo_index(album_info[first]).val)

\* Two memberships match the destination path and hold the photo at different
\* positions; the string returned is the photo's position in the first.
C8_Witness ==
    /\ Sequenced
    /\ Cardinality(Matching(last.dest_path)) = 2
    /\ photo_index(album_info[1]) = [ok |-> TRUE, val |-> 1]
    /\ photo_index(album_info[2]) = [ok |-> TRUE, val |-> 0]
    /\ last.ret = <<"1">>

C10_ResolversAgree ==
    Recorded =>
        \A n \in 1..Len(last.trace) :
            ( /\ last.trace[n].kind = "write"
              /\ first_match(1, DirPath(last.exported[last.trace[n].pos])) # 0 )
            => last.trace[n].album = first_match(1, DirPath(last.exported[last.trace[n].pos]))

====
